---- MODULE Spec2Model ----
(***************************************************************************)
(* Tender ingestion core of Tenderzville/Tender-API                        *)
(* (src/scraper/tender_scraper.py): the store (_save_to_db on the tenders  *)
(* table), the formatter (_format_tender_for_mobile), the two extractors   *)
(* (scrape_mygov_tenders, scrape_ppip_tenders), the fetcher                *)
(* (_make_request) and the read side (get_mobile_tenders).                 *)
(*                                                                         *)
(* Library behaviour the code relies on, as modelled:                      *)
(*  - dateutil's parser.parse accepts text only; a datetime object or text *)
(*    that is no date raises.                                              *)
(*  - pytz localize / astimezone(eat) / isoformat give text that carries   *)
(*    the +03:00 offset; pandas.to_datetime of that text is a tz-aware     *)
(*    Timestamp.                                                           *)
(*  - Column(DateTime) has no timezone: the value written is the wall      *)
(*    clock fields and the value read back is a naive datetime.            *)
(*  - a naive datetime and a tz-aware Timestamp compare unequal (!=).      *)
(*  - SQLite sorts NULL before every value in ORDER BY ... ASC.            *)
(***************************************************************************)
EXTENDS Integers, Sequences, FiniteSets, TLC

VARIABLES
    db,     \* the tenders table, rows in rowid order (TenderRecord)
    now,    \* the clock, in ticks (datetime.utcnow / datetime.now(eat))
    call,   \* the _save_to_db call in progress in this process
    run,    \* position of the ingestion pass (main / an API handler)
    ret     \* what the last extractor, formatter or query call returned

vars == <<db, now, call, run, ret>>

(***************************************************************************)
(* Bounds of the model                                                     *)
(***************************************************************************)
MaxTime == 1        \* the clock runs over 0..MaxTime
MaxRows == 2        \* rows of a table / releases of a feed
MaxRetry == 1       \* 429 answers before the upstream gives another answer
MaxDays == 9        \* closing dates of the formatter's inputs, in days
MaxWords == 3       \* words of a long title
MaxDepth == 2       \* recursive calls of one _make_request call
MaxAhead == 1       \* the days_remaining argument of a query runs over 0..MaxAhead
DayTicks == 2       \* clock ticks per day

References == {"R1", "R2"}
Sources == {"mygov", "ppip"}
Times == 0..MaxTime

(***************************************************************************)
(* Title text: the lengths of its words in order, the blank characters it  *)
(* holds beyond one between two words, and whether it ends with the        *)
(* placeholder "..." of textwrap.shorten.                                  *)
(***************************************************************************)
TitleWidth == 100

Title(words, blanks) == [words |-> words, blanks |-> blanks, ell |-> FALSE]

\* the empty string
NoTitle == Title(<<>>, 0)

T1 == Title(<<5, 6>>, 0)
T2 == Title(<<8>>, 0)
Titles == {T1, T2}

RECURSIVE Sum(_)
Sum(lens) == IF lens = <<>> THEN 0 ELSE Head(lens) + Sum(Tail(lens))

\* len(' '.join(words))
JoinedLen(words) ==
    IF words = <<>> THEN 0 ELSE Sum(words) + Len(words) - 1

\* len(text)
TextLen(x) == JoinedLen(x.words) + x.blanks + (IF x.ell THEN 3 ELSE 0)

\* the words kept without room left for the placeholder
WordsKeptNoRoom(words, width) ==
    CHOOSE k \in 0..Len(words) :
        /\ JoinedLen(SubSeq(words, 1, k)) <= width
        /\ \A j \in (k + 1)..Len(words) :
                JoinedLen(SubSeq(words, 1, j)) > width

\* the longest run of leading words that fits the width with the
\* placeholder appended
WordsKept(words, width) ==
    CHOOSE k \in 0..Len(words) :
        /\ JoinedLen(SubSeq(words, 1, k)) + 3 <= width
        /\ \A j \in (k + 1)..Len(words) :
                JoinedLen(SubSeq(words, 1, j)) + 3 > width

\* textwrap.shorten(text, width, placeholder="..."): blanks are collapsed
\* first; text that then fits is returned as it is, other text is cut after
\* a word and ends with the placeholder
Shorten(x, width) ==
    LET collapsed == [x EXCEPT !.blanks = 0]
    IN  IF TextLen(collapsed) <= width THEN collapsed
        ELSE [words |-> SubSeq(x.words, 1, WordsKept(x.words, width)),
              blanks |-> 0, ell |-> TRUE]

(***************************************************************************)
(* Dates.  k: "none" (None), "junk" (text that is no date), "str" (date    *)
(* text), "dt" (a datetime / Timestamp object); tz: "" (naive) or "eat"    *)
(* (carries the +03:00 offset); t: the instant, in ticks of EAT wall clock *)
(***************************************************************************)
None == [k |-> "none", tz |-> "", t |-> 0]
Junk == [k |-> "junk", tz |-> "", t |-> 0]
Str(tz, t) == [k |-> "str", tz |-> tz, t |-> t]
Dt(tz, t) == [k |-> "dt", tz |-> tz, t |-> t]

\* what an expression that raises gives
Raise == [k |-> "raise", tz |-> "", t |-> 0]

(***************************************************************************)
(* Calendar date text (k = "cal"), as a page or a feed writes it: the      *)
(* layout is the strptime pattern the text is laid out in, f1 and f2 are   *)
(* its first two date fields in reading order (the year is fixed), noise   *)
(* is an ordinal suffix after the day, token a word next to the date.      *)
(***************************************************************************)
\* line 151-160, in the order of the list
Formats ==
    <<"%d %B %Y", "%B %d %Y", "%d/%m/%Y", "%Y-%m-%d",
      "%d-%m-%Y", "%d.%m.%Y", "%d %b %Y", "%b %d %Y">>

Layouts == {Formats[i] : i \in 1..Len(Formats)}

\* day and month numbers a text can show
Fields == {3, 5, 15}

\* words met next to a date, in the case the page writes them
Tokens == {"", "various", "Multiple", "CLOSING", "Date", "www", "tender"}

CalText(layout, f1, f2, noise, token) ==
    [k |-> "cal", layout |-> layout, f1 |-> f1, f2 |-> f2,
     noise |-> noise, token |-> token]

\* the instant of midnight of day d of month m, in ticks
DateT(d, m) == ((m - 1) * 31 + (d - 1)) * DayTicks

\* str.lower()
Lower(s) ==
    CASE s = "Multiple" -> "multiple"
      [] s = "CLOSING" -> "closing"
      [] s = "Date" -> "date"
      [] OTHER -> s

\* line 138: the text holds a placeholder word
IsPlaceholder(x) ==
    Lower(x.token) \in {"various", "multiple", "closing", "date", "www"}

\* lines 143-147: suffixes and commas are cut out
Clean(x) == [x EXCEPT !.noise = ""]

\* every numeric pattern read month first
FieldsOfMonthFirst(fmt, x) == [day |-> x.f2, month |-> x.f1]

\* the fields a pattern of lines 151-160 takes for %d and for %m, %B, %b
FieldsOf(fmt, x) ==
    IF fmt \in {"%B %d %Y", "%Y-%m-%d", "%b %d %Y"}
    THEN [day |-> x.f2, month |-> x.f1]
    ELSE [day |-> x.f1, month |-> x.f2]

\* line 164: pd.to_datetime(date_str, format=fmt), exact: Raise unless the
\* whole text fits the pattern with a month of 1..12 and a day of 1..31
Strptime(x, fmt) ==
    LET f == FieldsOf(fmt, x)
    IN  IF /\ x.layout = fmt /\ x.noise = "" /\ x.token = ""
           /\ f.month \in 1..12 /\ f.day \in 1..31
        THEN Dt("", DateT(f.day, f.month))
        ELSE Raise

\* line 168: pd.to_datetime(date_str), reached by text no pattern fits: a
\* numeric date whose second field is no month is read month first
FlexibleParse(x) ==
    IF x.noise = "" /\ x.token = "" /\ x.f1 \in 1..12 /\ x.f2 \in 1..31
    THEN Dt("", DateT(x.f2, x.f1))
    ELSE Raise

\* lines 162-168: the first pattern that fits wins
RECURSIVE TryFormats(_, _)
TryFormats(x, i) ==
    IF i > Len(Formats) THEN FlexibleParse(x)
    ELSE IF Strptime(x, Formats[i]) # Raise THEN Strptime(x, Formats[i])
    ELSE TryFormats(x, i + 1)

\* the outer try without its except
ParseKenyanDateUncaught(x) ==
    IF x.k = "str" THEN Dt(x.tz, x.t)
    ELSE IF x.k = "cal"
         THEN IF IsPlaceholder(x) THEN None ELSE TryFormats(Clean(x), 1)
         ELSE IF x.k = "none" THEN None ELSE Raise

\* _parse_kenyan_date: None for empty or placeholder text and for text no
\* pattern and no flexible parse accepts; otherwise the Timestamp pandas
\* gives, tz-aware exactly when the text carries an offset.
ParseKenyanDate(x) ==
    IF x.k = "str" THEN Dt(x.tz, x.t)
    ELSE IF x.k = "cal"
         THEN IF IsPlaceholder(x) THEN None
              ELSE LET parsed == TryFormats(Clean(x), 1)
                   IN  IF parsed = Raise THEN None ELSE parsed
         ELSE None

\* closing_date = Column(DateTime): what a later SELECT gives for a value
\* written to the column (the offset is not stored).
ColumnDateTime(x) ==
    IF x.k = "dt" THEN Dt("", x.t) ELSE None

(***************************************************************************)
(* The store: _save_to_db                                                  *)
(***************************************************************************)
\* lines 366-375: the closing date the call works with
ClosingOf(tender) ==
    IF tender.closing_date.k = "dt"
    THEN tender.closing_date
    ELSE ParseKenyanDate(tender.closing_date)

\* filter_by(reference=..., source=...)
Matches(r, tender) ==
    r.reference = tender.reference /\ r.source = tender.source

\* lines 396-399: .first() of the filtered query; 0 when there is no row
Lookup(d, tender) ==
    IF \E i \in 1..Len(d) : Matches(d[i], tender)
    THEN CHOOSE i \in 1..Len(d) :
            /\ Matches(d[i], tender)
            /\ \A j \in 1..(i - 1) : ~Matches(d[j], tender)
    ELSE 0

\* a table without the unique index
NoUniqueViolation(d, reference) == FALSE

\* reference = Column(String(100), unique=True): the INSERT is refused when
\* a row of any source already carries the reference
UniqueViolation(d, reference) ==
    \E i \in 1..Len(d) : d[i].reference = reference

\* lines 379-393 and the column defaults of lines 48-50
NewRecord(d, tender, t) ==
    [id |-> Len(d) + 1,
     reference |-> tender.reference,
     source |-> tender.source,
     title |-> tender.title,
     closing_date |-> ColumnDateTime(ClosingOf(tender)),
     is_processed |-> FALSE,
     created_at |-> t,
     updated_at |-> t]

\* line 407: if closing_date and existing.closing_date != closing_date
ClosingDiffers(stored, incoming) ==
    incoming # None /\ stored # incoming

\* lines 401-417: what the call does once the lookup has answered
\* `existing`; an IntegrityError is caught and rolled back (415-417)
SaveOutcome(d, tender, existing) ==
    IF existing = 0
    THEN IF UniqueViolation(d, tender.reference) THEN "error" ELSE "inserted"
    ELSE IF ClosingDiffers(d[existing].closing_date, ClosingOf(tender))
         THEN "updated"
         ELSE "noop"

\* a store that refreshes the payload columns on update as well
WriteDbRefreshAll(d, tender, existing, t) ==
    CASE SaveOutcome(d, tender, existing) = "inserted" ->
            Append(d, NewRecord(d, tender, t))
      [] SaveOutcome(d, tender, existing) = "updated" ->
            [d EXCEPT ![existing].closing_date = ColumnDateTime(ClosingOf(tender)),
                      ![existing].title = tender.title,
                      ![existing].updated_at = t]
      [] OTHER -> d

\* a store that writes the whole new record over the stored one
WriteDbMergeRecord(d, tender, existing, t) ==
    CASE SaveOutcome(d, tender, existing) = "inserted" ->
            Append(d, NewRecord(d, tender, t))
      [] SaveOutcome(d, tender, existing) = "updated" ->
            [d EXCEPT ![existing].closing_date = ColumnDateTime(ClosingOf(tender)),
                      ![existing].is_processed = FALSE,
                      ![existing].updated_at = t]
      [] OTHER -> d

WriteDb(d, tender, existing, t) ==
    CASE SaveOutcome(d, tender, existing) = "inserted" ->
            Append(d, NewRecord(d, tender, t))
      [] SaveOutcome(d, tender, existing) = "updated" ->
            [d EXCEPT ![existing].closing_date = ColumnDateTime(ClosingOf(tender)),
                      ![existing].updated_at = t]
      [] OTHER -> d

\* the whole call, when no other process writes in between
SaveToDb(d, tender, t) == WriteDb(d, tender, Lookup(d, tender), t)

(***************************************************************************)
(* Candidates as the extractors hand them to _save_to_db: the formatter    *)
(* has left closing_date None or ISO text with the +03:00 offset.          *)
(***************************************************************************)
ClosingTexts == {None} \cup {Str("eat", t) : t \in 1..2}

Candidates ==
    [reference : References, source : Sources, title : Titles,
     closing_date : ClosingTexts]

NoTender == [reference |-> "", source |-> "", title |-> NoTitle, closing_date |-> None]

Idle == [pc |-> "idle", tender |-> NoTender, existing |-> 0, outcome |-> ""]
NoRet == [op |-> "none"]
NoRun == [pc |-> "idle", page |-> "", feed |-> <<>>, batch |-> <<>>]

InitStore ==
    /\ db = <<>>
    /\ now = 0
    /\ call = Idle
    /\ run = NoRun
    /\ ret = NoRet

\* the clock advances
Tick ==
    /\ now < MaxTime
    /\ now' = now + 1
    /\ UNCHANGED <<db, call, run, ret>>

\* _save_to_db, lines 363-399: build the record and look the key up
SaveLookup(tender) ==
    /\ call.pc # "looked"
    /\ call' = [pc |-> "looked", tender |-> tender,
                existing |-> Lookup(db, tender), outcome |-> ""]
    /\ UNCHANGED <<db, now, run, ret>>

\* _save_to_db, lines 401-417: insert or update, and commit
SaveWrite ==
    /\ call.pc = "looked"
    /\ db' = WriteDb(db, call.tender, call.existing, now)
    /\ call' = [call EXCEPT !.pc = "done",
                            !.outcome = SaveOutcome(db, call.tender, call.existing)]
    /\ UNCHANGED <<now, run, ret>>

\* a whole _save_to_db call of another process on the same database file,
\* committed between this process's lookup and its write
RacingSave(tender) ==
    /\ call.pc = "looked"
    /\ db' = SaveToDb(db, tender, now)
    /\ UNCHANGED <<now, call, run, ret>>

NextStore ==
    \/ Tick
    \/ \E tender \in Candidates : SaveLookup(tender)
    \/ SaveWrite
    \/ \E tender \in Candidates : RacingSave(tender)

Spec == InitStore /\ [][NextStore]_vars

(***************************************************************************)
(* Claims about the store, under Spec                                      *)
(***************************************************************************)
\* this step is the write of the call in progress
IsWrite == call.pc = "looked" /\ call'.pc = "done"

\* the rows of d stored under the tender's (reference, source)
RowsOf(d, tender) == {i \in 1..Len(d) : Matches(d[i], tender)}

\* the tender's closing date is the one its stored row already has
SameClosing(d, i, tender) ==
    d[i].closing_date = ColumnDateTime(ClosingOf(tender))

\* C1: a second upsert of the same (reference, source) with an unchanged
\* closingDate (null or not) leaves exactly one record for the key and
\* leaves that record's updatedAt unchanged.
C1_UpsertIdempotent ==
    [][(/\ IsWrite
        /\ call.existing # 0
        /\ call.existing = Lookup(db, call.tender)
        /\ SameClosing(db, call.existing, call.tender))
       => /\ Cardinality(RowsOf(db', call.tender)) = 1
          /\ db'[call.existing].updated_at = db[call.existing].updated_at]_vars

\* C2: an upsert of an existing key with a different closingDate changes at
\* most closingDate and updatedAt of that record: every other column keeps
\* its first-insert value even when the candidate disagrees, no row is added
\* and every other row is unchanged.
C2_UpsertChangePolicy ==
    [][(/\ IsWrite
        /\ call.existing # 0
        /\ ~SameClosing(db, call.existing, call.tender))
       => /\ Len(db') = Len(db)
          /\ \A i \in 1..Len(db) : i # call.existing => db'[i] = db[i]
          /\ [db'[call.existing] EXCEPT
                !.closing_date = db[call.existing].closing_date,
                !.updated_at = db[call.existing].updated_at] = db[call.existing]]_vars

\* C2's case: the closing date of a record was just updated by a candidate
\* whose title disagrees with the stored one, with another record stored
C2_Witness ==
    /\ call.pc = "done"
    /\ call.outcome = "updated"
    /\ Len(db) = 2
    /\ db[call.existing].title # call.tender.title
    /\ db[call.existing].updated_at > db[call.existing].created_at

\* C3: after any sequence or interleaving of upserts the store holds at
\* most one record for each (reference, source) pair.
C3_UniqueKey ==
    \A i, j \in 1..Len(db) :
        (db[i].reference = db[j].reference /\ db[i].source = db[j].source) => i = j

\* C3's case: the lookup saw no record, another process then stored the
\* same key, and this call's insert was refused
C3_Witness ==
    /\ call.pc = "done"
    /\ call.existing = 0
    /\ call.outcome = "error"
    /\ RowsOf(db, call.tender) # {}

\* C4: an upsert of a candidate whose (reference, source) matches no stored
\* record ends with a record of that reference and source stored, with
\* isProcessed = false, also when the reference is stored under the other
\* source.
C4_InsertNewKey ==
    [][(IsWrite /\ call.existing = 0 /\ RowsOf(db, call.tender) = {})
       => \E i \in RowsOf(db', call.tender) : db'[i].is_processed = FALSE]_vars

\* C15: for an existing key the upsert updates closingDate and bumps
\* updatedAt whenever the incoming closingDate differs from the stored one,
\* a null on one side only counting as a difference; it is a no-op only
\* when the two are equal.
C15_UpdateWheneverDifferent ==
    [][(/\ IsWrite
        /\ call.existing # 0
        /\ call.existing = Lookup(db, call.tender)
        /\ ~SameClosing(db, call.existing, call.tender))
       => /\ SameClosing(db', call.existing, call.tender)
          /\ db'[call.existing].updated_at = now]_vars

\* C16: writes to one key are serialized: a call that found no record for
\* its key and went on to insert never meets a record that another call,
\* which found none either, has inserted for that key in between.
C16_SerializedWrites ==
    (/\ call.pc = "done"
     /\ call.existing = 0
     /\ RowsOf(db, call.tender) # {})
        => call.outcome = "inserted"

(***************************************************************************)
(* SpecConsume: the store as a downstream consumer uses it, next to the    *)
(* upserts of the ingestion passes: get_unprocessed_tenders and            *)
(* mark_as_processed.  Each call is one transaction of the one session.    *)
(***************************************************************************)
\* every row is marked
MarkAsProcessedAll(d, tender_id, t) ==
    IF tender_id \in 1..Len(d)
    THEN [i \in 1..Len(d) |-> [d[i] EXCEPT !.is_processed = TRUE, !.updated_at = t]]
    ELSE d

\* lines 423-429: query.get(tender_id) is the row of that id, or None
MarkAsProcessed(d, tender_id, t) ==
    IF \E i \in 1..Len(d) : d[i].id = tender_id
    THEN [i \in 1..Len(d) |->
            IF d[i].id = tender_id
            THEN [d[i] EXCEPT !.is_processed = TRUE, !.updated_at = t]
            ELSE d[i]]
    ELSE d

\* lines 419-421: filter_by(is_processed=False).all()
GetUnprocessedTenders(d) == SelectSeq(d, LAMBDA r : ~r.is_processed)

\* the candidates of the passes: one title, dated or not
ConsumeCandidates ==
    [reference : References, source : Sources, title : {T1},
     closing_date : {None, Str("eat", 1)}]

\* ids a consumer may pass: those of the rows and one more
TenderIds == 1..(Cardinality(References) + 1)

Save(tender) ==
    /\ db' = SaveToDb(db, tender, now)
    /\ ret' = [op |-> "save", arg |-> tender]
    /\ UNCHANGED <<now, call, run>>

Mark(tender_id) ==
    /\ db' = MarkAsProcessed(db, tender_id, now)
    /\ ret' = [op |-> "mark", arg |-> tender_id]
    /\ UNCHANGED <<now, call, run>>

Unprocessed ==
    /\ ret' = [op |-> "unprocessed", value |-> GetUnprocessedTenders(db)]
    /\ UNCHANGED <<db, now, call, run>>

NextConsume ==
    \/ Tick
    \/ \E tender \in ConsumeCandidates : Save(tender)
    \/ \E tender_id \in TenderIds : Mark(tender_id)
    \/ Unprocessed

SpecConsume == InitStore /\ [][NextConsume]_vars

\* this step is a mark_as_processed call (every other call leaves another
\* ret, and the clock's step leaves db and ret alone)
IsMark == ret'.op = "mark" /\ (ret' # ret \/ db' # db)

\* C14: markProcessed(id) sets isProcessed and bumps updatedAt on the
\* record of that id and changes nothing else; for an id no record has,
\* the store is left unchanged.
C14_MarkProcessed ==
    [][IsMark =>
        /\ Len(db') = Len(db)
        /\ \A i \in 1..Len(db) :
              IF db[i].id = ret'.arg
              THEN /\ db'[i].is_processed
                   /\ db'[i].updated_at = now
                   /\ [db'[i] EXCEPT !.is_processed = db[i].is_processed,
                                     !.updated_at = db[i].updated_at] = db[i]
              ELSE db'[i] = db[i]]_vars

\* C14's case: of two records the second has been marked, after its
\* insertion, and the first has not
C14_Witness ==
    /\ ret.op = "mark"
    /\ ret.arg = 2
    /\ Len(db) = 2
    /\ db[2].is_processed /\ ~db[1].is_processed
    /\ db[2].updated_at > db[2].created_at

\* C20: isProcessed is changed by markProcessed only: no upsert changes
\* it on a stored record, a new record starts unprocessed, and
\* listUnprocessed returns exactly the records not marked.
C20_ProcessedOnlyByMark ==
    [][/\ ~IsMark =>
            /\ Len(db') >= Len(db)
            /\ \A i \in 1..Len(db) : db'[i].is_processed = db[i].is_processed
            /\ \A i \in (Len(db) + 1)..Len(db') : ~db'[i].is_processed
       /\ IsMark => \A i \in 1..Len(db) : db[i].is_processed => db'[i].is_processed
       /\ ret'.op = "unprocessed" =>
            /\ \A i \in 1..Len(db) :
                  db[i].is_processed <=>
                      ~\E j \in 1..Len(ret'.value) : ret'.value[j].id = db[i].id
            /\ \A j \in 1..Len(ret'.value) :
                  \E i \in 1..Len(db) : ret'.value[j] = db[i]]_vars

\* C20's case: a marked record was upserted again with a new closing date
\* and is still processed
C20_Witness ==
    /\ ret.op = "save"
    /\ ret.arg.closing_date # None
    /\ \E i \in 1..Len(db) :
          /\ Matches(db[i], ret.arg)
          /\ db[i].is_processed
          /\ db[i].updated_at = now
          /\ db[i].updated_at > db[i].created_at

(***************************************************************************)
(* SpecDates: _parse_kenyan_date applied to the date texts of the pages    *)
(***************************************************************************)
Noises == {"", "th"}

\* a month name is a month, and so is the month of a year-first date
DateInputs ==
    {None, Junk} \cup
    {x \in [k : {"cal"}, layout : Layouts, f1 : Fields, f2 : Fields,
            noise : Noises, token : Tokens] :
        /\ x.layout \in {"%B %d %Y", "%b %d %Y", "%Y-%m-%d"} => x.f1 <= 12
        /\ x.layout \in {"%d %B %Y", "%d %b %Y"} => x.f2 <= 12}

Parse(text) ==
    /\ ret' = [op |-> "parse", arg |-> text, value |-> ParseKenyanDate(text)]
    /\ UNCHANGED <<db, now, call, run>>

NextDates == \E text \in DateInputs : Parse(text)

SpecDates == InitStore /\ [][NextDates]_vars

\* day d of month m as a page writes it in a layout, day before month
\* wherever the layout does not begin with the month or the year
Written(layout, d, m, noise) ==
    IF layout \in {"%B %d %Y", "%b %d %Y", "%Y-%m-%d"}
    THEN CalText(layout, m, d, noise, "")
    ELSE CalText(layout, d, m, noise, "")

\* C11: the date normalizer gives the same calendar date for one date
\* written in any of its supported layouts ('15 March 2024', '15/03/2024',
\* '2024-03-15', '15.03.2024', ...): numeric layouts are read day first.
C11_SameDateEveryFormat ==
    \A layout \in Layouts, d \in Fields, m \in {f \in Fields : f <= 12},
       noise \in Noises :
        (ret.op = "parse" /\ ret.arg = Written(layout, d, m, noise))
            => ret.value = Dt("", DateT(d, m))

\* C11's case: 05/03/2024, a numeric date that reads both ways, came out
\* as the 5th of March
C11_Witness ==
    /\ ret.op = "parse"
    /\ ret.arg = CalText("%d/%m/%Y", 5, 3, "", "")
    /\ ret.value = Dt("", DateT(5, 3))

\* C12: text that holds 'various', 'multiple', 'closing', 'date' or 'www'
\* in any letter case gives none, also next to a valid date; the
\* normalizer never raises: text it cannot read gives none.
C12_PlaceholderGivesNone ==
    ret.op = "parse" =>
        /\ ret.value.k \in {"none", "dt"}
        /\ (/\ ret.arg.k = "cal"
            /\ ret.arg.token \in {"various", "Multiple", "CLOSING", "Date", "www"})
           => ret.value = None
        /\ ret.arg.k = "junk" => ret.value = None

\* C12's case: 'CLOSING 15 March 2024' gave none
C12_Witness ==
    /\ ret.op = "parse"
    /\ ret.arg = CalText("%d %B %Y", 15, 3, "", "CLOSING")
    /\ ret.value = None

(***************************************************************************)
(* The formatter: _format_tender_for_mobile.  A tender dict is a record;   *)
(* a key the dict lacks, or holds as None, reads "" (status) or <<>>       *)
(* (days_remaining, last_updated).  None also stands for an empty cell     *)
(* text.                                                                   *)
(***************************************************************************)
\* tender.get('closing_date') is truthy
HasClosing(tender) == tender.closing_date.k # "none"

\* the day and the month dateutil's parser.parse (dayfirst=False) takes
\* from calendar text: a spelled month and a year-first date read as
\* written; of a numeric date the first field is the month whenever it can
\* be one, and the day otherwise
DateutilFields(x) ==
    IF x.layout \in {"%B %d %Y", "%b %d %Y", "%Y-%m-%d"}
    THEN [day |-> x.f2, month |-> x.f1]
    ELSE IF x.layout \in {"%d %B %Y", "%d %b %Y"}
    THEN [day |-> x.f1, month |-> x.f2]
    ELSE IF x.f1 <= 12
    THEN [day |-> x.f2, month |-> x.f1]
    ELSE [day |-> x.f1, month |-> x.f2]

\* parser.parse accepts date text only: an ordinal suffix is skipped, a
\* word it does not know, or a month above 12, raises
DateutilParses(x) ==
    \/ x.k = "str"
    \/ /\ x.k = "cal"
       /\ x.token = ""
       /\ DateutilFields(x).month \in 1..12
       /\ DateutilFields(x).day \in 1..31

\* the instant parser.parse gives
DateutilT(x) ==
    IF x.k = "str" THEN x.t
    ELSE DateT(DateutilFields(x).day, DateutilFields(x).month)

\* lines 182-189: parse, localize a naive value to EAT, convert to EAT and
\* write ISO text back; None when parsing raises
LocalizedClosing(tender) ==
    IF ~HasClosing(tender) THEN tender.closing_date
    ELSE IF DateutilParses(tender.closing_date)
         THEN Str("eat", DateutilT(tender.closing_date))
         ELSE None

\* the difference taken the other way round
DaysRemainingReversed(closing_t, t) == (t - closing_t) \div DayTicks

\* line 207: (closing_date.astimezone(eat) - now).days, a floor
DaysRemaining(closing_t, t) == (closing_t - t) \div DayTicks

\* closing_soon for fewer than 7 days only
StatusOfBelowSeven(days) ==
    IF days < 0 THEN "closed" ELSE IF days < 7 THEN "closing_soon" ELSE "open"

\* line 209
StatusOf(days) ==
    IF days < 0 THEN "closed" ELSE IF days <= 7 THEN "closing_soon" ELSE "open"

\* lines 174-229
FormatTenderForMobile(tender, t) ==
    LET closing == LocalizedClosing(tender)
        dated == closing.k = "str"
        days == DaysRemaining(closing.t, t)
    IN  [tender EXCEPT
            !.title = IF @ # NoTitle THEN Shorten(@, TitleWidth) ELSE @,
            !.closing_date = closing,
            !.days_remaining = IF dated THEN <<days>> ELSE @,
            !.status = IF dated THEN StatusOf(days) ELSE @,
            !.last_updated = <<t>>,
            !.offline_available = TRUE]

\* a tender dict as an extractor builds it
RawTender(reference, title, source, closing, status) ==
    [reference |-> reference, title |-> title, source |-> source,
     closing_date |-> closing, status |-> status,
     days_remaining |-> <<>>, last_updated |-> <<>>,
     offline_available |-> FALSE]

(***************************************************************************)
(* SpecFormat: the formatter applied to the dicts of both extractors       *)
(***************************************************************************)
FormatTimes == (0 - 2 * DayTicks)..(MaxDays * DayTicks)

RawClosings ==
    {None, Junk} \cup {Str(tz, t) : tz \in {"", "eat"}, t \in FormatTimes}

\* tender.status of a release: missing, or an OCDS status
UpstreamStatuses == {"", "active", "complete"}

\* lengths of the words of long titles
WordLens == {38, 60, 101}

\* titles of one to MaxWords words, with and without a run of blanks
LongTitles ==
    {Title(words, blanks) :
        words \in UNION {[1..n -> WordLens] : n \in 1..MaxWords},
        blanks \in {0, 2}}

FormatInputs ==
    {RawTender("R1", T1, "mygov", c, "") : c \in RawClosings}
    \cup {RawTender("R1", T1, "ppip", c, st) :
            c \in RawClosings, st \in UpstreamStatuses}
    \cup {RawTender("R2", title, "mygov", None, "") : title \in LongTitles}

Format(tender) ==
    /\ ret' = [op |-> "format", arg |-> tender,
               value |-> FormatTenderForMobile(tender, now)]
    /\ UNCHANGED <<db, now, call, run>>

NextFormat ==
    \/ Tick
    \/ \E tender \in FormatInputs : Format(tender)

SpecFormat == InitStore /\ [][NextFormat]_vars

\* C5: the formatter gives status 'unknown' to every candidate whose
\* closingDate is absent or cannot be parsed, for both extractors.
C5_UnknownWithoutClosing ==
    (ret.op = "format" /\ ~DateutilParses(ret.arg.closing_date))
        => ret.value.status = "unknown"

\* C6: daysRemaining is the whole-day (floor) difference between closingDate
\* and the current moment; a closingDate 2 days after now gives 2 and
\* closing_soon, a closingDate 1 day before now gives -1 and closed.
C6_DaysRemaining ==
    (ret.op = "format" /\ DateutilParses(ret.arg.closing_date)) =>
        LET at == ret.value.last_updated[1]
            closing == ret.arg.closing_date.t
            days == ret.value.days_remaining
        IN  /\ days # <<>>
            /\ days[1] * DayTicks <= closing - at
            /\ closing - at < (days[1] + 1) * DayTicks
            /\ closing = at + 2 * DayTicks
                  => days = <<2>> /\ ret.value.status = "closing_soon"
            /\ closing = at - DayTicks
                  => days = <<0 - 1>> /\ ret.value.status = "closed"

\* C6's cases: a closing date exactly 2 days ahead, and one 1 day back,
\* have been formatted
C6_Witness ==
    /\ ret.op = "format"
    /\ ret.arg.closing_date.k = "str"
    /\ ret.arg.closing_date.t = now + 2 * DayTicks
    /\ ret.value.last_updated = <<now>>
    /\ ret.value.days_remaining = <<2>>

\* C13 as stated: every title longer than 100 characters comes out at most
\* 100 characters long, different from the original and ending with '...'.
C13_LongTitleEllipsis ==
    (ret.op = "format" /\ TextLen(ret.arg.title) > 100) =>
        /\ TextLen(ret.value.title) <= 100
        /\ ret.value.title # ret.arg.title
        /\ ret.value.title.ell

\* C13, amended: a title that is still longer than 100 characters once
\* its runs of blanks are collapsed to single blanks comes out at most 100
\* characters long, different from the original and ending with '...'; a
\* title that fits once collapsed comes out collapsed, without the marker.
C13_CollapsedLongTitleEllipsis ==
    (ret.op = "format" /\ TextLen(ret.arg.title) > 100) =>
        IF JoinedLen(ret.arg.title.words) > 100
        THEN /\ TextLen(ret.value.title) <= 100
             /\ ret.value.title # ret.arg.title
             /\ ret.value.title.ell
        ELSE ret.value.title = Title(ret.arg.title.words, 0)

\* C13's case: a title of 60 + 38 + 60 characters in three words was cut
\* after its first word, 99 characters leaving no room for the marker
C13_Witness ==
    /\ ret.op = "format"
    /\ ret.arg.title = Title(<<60, 38, 60>>, 0)
    /\ ret.value.title.words = <<60>>
    /\ ret.value.title.ell

\* C19: whenever the formatter computes daysRemaining, status is a function
\* of it: closed below 0, closing_soon from 0 to 7, open above 7.
C19_StatusFromDays ==
    (ret.op = "format" /\ ret.value.days_remaining # <<>>) =>
        LET days == ret.value.days_remaining[1]
        IN  /\ days < 0 => ret.value.status = "closed"
            /\ days \in 0..7 => ret.value.status = "closing_soon"
            /\ days > 7 => ret.value.status = "open"

\* C19's case: a tender of the feed that closes in 8 days is open
C19_Witness ==
    /\ ret.op = "format"
    /\ ret.arg.source = "ppip"
    /\ ret.value.days_remaining = <<8>>
    /\ ret.value.status = "open"

(***************************************************************************)
(* The fetcher: _make_request.  session.get goes through the HTTPAdapter   *)
(* mounted with Retry(total=5) (lines 77-83): urllib3 itself sleeps and    *)
(* retries a 429 answer that carries a Retry-After header (seconds or an   *)
(* HTTP date), and raises RetryError, a RequestException, when its retries *)
(* are used up.  _make_request therefore sees a 429 answer only when the   *)
(* header is absent or its value is empty.                                 *)
(* The upstream's answers are: "429_absent" (no Retry-After header),       *)
(* "429_seconds" (a Retry-After header with a value), "429_empty" (a       *)
(* Retry-After header with an empty value), and the answers that end the   *)
(* call.                                                                   *)
(***************************************************************************)
RateLimited == {"429_absent", "429_seconds", "429_empty"}
FinalAnswers == {"ok", "http_error", "transport_failure"}

SeqsUpTo(S, n) == UNION {[1..k -> S] : k \in 0..n}

Scripts == {p \o <<f>> : p \in SeqsUpTo(RateLimited, MaxRetry), f \in FinalAnswers}

\* lines 100-134, for fewer 429 answers than the transport's retries:
\* "response", "none" (a RequestException was caught) or "raise" (int('')
\* of an empty Retry-After is a ValueError, which line 132 does not catch)
RECURSIVE MakeRequest(_)
MakeRequest(answers) ==
    CASE Head(answers) = "429_empty" -> "raise"
      [] Head(answers) \in {"429_absent", "429_seconds"} -> MakeRequest(Tail(answers))
      [] Head(answers) = "ok" -> "response"
      [] OTHER -> "none"

(***************************************************************************)
(* SpecFetch: one _make_request call, answer by answer.  ret holds the     *)
(* call: pc ("sent", "sleeping", "returned", "raised"), the answer to the  *)
(* last attempt, the retries urllib3 has used in the current session.get,  *)
(* the depth of the recursion of line 127 and the seconds last slept.      *)
(***************************************************************************)
RetryTotal == 5
DefaultRetryAfter == 60

\* values of a Retry-After header, in seconds
HeaderSeconds == {1, 120}

Urls == {"https://www.mygov.go.ke/all-tenders",
         "https://tenders.go.ke/api/ocds/tenders"}

\* a caller calls _make_request(url)
Request(url) ==
    /\ ret.op = "fetch" => ret.pc \in {"returned", "raised"}
    /\ ret' = [op |-> "fetch", url |-> url, pc |-> "sent", answer |-> "",
               used |-> 0, depth |-> 0, slept |-> 0, value |-> ""]
    /\ UNCHANGED <<db, now, call, run>>

\* lines 114-134: the upstream answers the attempt in flight
Answer(a, secs) ==
    /\ ret.op = "fetch" /\ ret.pc = "sent"
    /\ a = "429_absent" => ret.depth < MaxDepth
    /\ ret' =
         CASE a = "ok" ->
                [ret EXCEPT !.pc = "returned", !.answer = a, !.value = "response"]
           [] a \in {"http_error", "transport_failure"} ->
                [ret EXCEPT !.pc = "returned", !.answer = a, !.value = "none"]
           [] a = "429_seconds" /\ ret.used < RetryTotal ->
                [ret EXCEPT !.pc = "sleeping", !.answer = a,
                            !.used = @ + 1, !.slept = secs]
           [] a = "429_seconds" /\ ret.used >= RetryTotal ->
                [ret EXCEPT !.pc = "returned", !.answer = a, !.value = "none"]
           [] a = "429_absent" ->
                [ret EXCEPT !.pc = "sleeping", !.answer = a,
                            !.slept = DefaultRetryAfter]
           [] OTHER ->
                [ret EXCEPT !.pc = "raised", !.answer = a, !.value = "ValueError"]
    /\ UNCHANGED <<db, now, call, run>>

\* the sleep ends and the same request is sent again: by urllib3 within
\* session.get, or by the recursive call of line 127, whose session.get
\* starts with all its retries
Wake ==
    /\ ret.op = "fetch" /\ ret.pc = "sleeping"
    /\ ret' = IF ret.answer = "429_absent"
              THEN [ret EXCEPT !.pc = "sent", !.answer = "", !.used = 0,
                               !.depth = @ + 1]
              ELSE [ret EXCEPT !.pc = "sent", !.answer = ""]
    /\ UNCHANGED <<db, now, call, run>>

NextFetch ==
    \/ \E url \in Urls : Request(url)
    \/ \E a \in RateLimited \cup FinalAnswers, secs \in HeaderSeconds : Answer(a, secs)
    \/ Wake

\* time.sleep returns, and session.get returns within its timeout
SpecFetch ==
    /\ InitStore
    /\ [][NextFetch]_vars
    /\ WF_vars(Wake)
    /\ WF_vars(\E a \in FinalAnswers, secs \in HeaderSeconds : Answer(a, secs))

\* C17: on every 429 answer the fetcher sleeps for the Retry-After value
\* (60 seconds when the header is absent) and then retries the same
\* request, without ceiling: it never returns, or raises, on a 429 answer.
C17_Retries429WithoutCeiling ==
    (ret.op = "fetch" /\ ret.answer \in RateLimited) =>
        /\ ret.pc = "sleeping"
        /\ ret.answer = "429_absent" => ret.slept = 60

(***************************************************************************)
(* The extractors, run one after the other by main() (lines 562-567) and   *)
(* by the API handlers.  run.pc is the position of the pass, run.page what *)
(* the extractor found in the response, run.feed the rows or releases read *)
(* so far and run.batch the extractor's list `tenders`.                    *)
(***************************************************************************)
\* a table row: cells_ok is FALSE when a reference, title or entity cell is
\* missing; closing is None when the closing-date cell is missing
Rows ==
    {[reference |-> "R1", cells_ok |-> TRUE, closing |-> None],
     [reference |-> "R1", cells_ok |-> TRUE, closing |-> Str("", 2)],
     [reference |-> "R2", cells_ok |-> TRUE, closing |-> Str("", 1)],
     [reference |-> "R2", cells_ok |-> TRUE, closing |-> Junk],
     [reference |-> "R2", cells_ok |-> FALSE, closing |-> Str("", 1)]}

\* a release: reference "" / title NoTitle when tender.id / tender.title is
\* missing;
\* wellformed is FALSE when buyer or tender.value is null, so that .get on
\* it raises
Releases ==
    {[reference |-> "R1", title |-> T1, wellformed |-> TRUE,
      closing |-> Str("eat", 1), status |-> "active"],
     [reference |-> "R2", title |-> T1, wellformed |-> TRUE,
      closing |-> None, status |-> ""],
     [reference |-> "", title |-> T1, wellformed |-> TRUE,
      closing |-> Str("eat", 1), status |-> "active"],
     [reference |-> "R2", title |-> NoTitle, wellformed |-> TRUE,
      closing |-> Str("eat", 2), status |-> "active"],
     [reference |-> "R1", title |-> T1, wellformed |-> FALSE,
      closing |-> Str("eat", 2), status |-> "active"]}

Tables == {"no_table", "no_tbody", "rows"}
Payloads == {"bad_json", "not_object", "releases"}

\* lines 236-238: the request of scrape_mygov_tenders, outside any try
FetchMygov(answers) ==
    /\ run.pc \in {"idle", "done", "crashed"}
    /\ run' = CASE MakeRequest(answers) = "raise" ->
                    [NoRun EXCEPT !.pc = "crashed", !.page = "request_raised"]
                [] MakeRequest(answers) = "none" ->
                    [NoRun EXCEPT !.pc = "mygov_done", !.page = "no_response"]
                [] OTHER -> [NoRun EXCEPT !.pc = "mygov_page"]
    /\ ret' = NoRet
    /\ UNCHANGED <<db, now, call>>

\* an extractor that goes on to the rows without the check of line 243
ParseMygovUnchecked(table) ==
    /\ run.pc = "mygov_page"
    /\ run' = IF table = "no_tbody"
              THEN [run EXCEPT !.pc = "crashed", !.page = table]
              ELSE [run EXCEPT !.pc = "mygov_rows", !.page = table]
    /\ ret' = NoRet
    /\ UNCHANGED <<db, now, call>>

\* lines 240-247: find the table; table.find('tbody') of a table without
\* tbody is None and .find_all on it raises, outside the row's try
ParseMygov(table) ==
    /\ run.pc = "mygov_page"
    /\ run' = CASE table = "no_table" ->
                    [run EXCEPT !.pc = "mygov_done", !.page = table]
                [] table = "no_tbody" ->
                    [run EXCEPT !.pc = "crashed", !.page = table]
                [] OTHER -> [run EXCEPT !.pc = "mygov_rows", !.page = table]
    /\ ret' = NoRet
    /\ UNCHANGED <<db, now, call>>

\* lines 249-267
MygovTender(row) ==
    RawTender(row.reference, T1, "mygov", row.closing, "")

\* the loop inside the try instead of the try inside the loop
MygovRowNoTry(row) ==
    /\ run.pc = "mygov_rows"
    /\ Len(run.feed) < MaxRows
    /\ IF row.cells_ok
       THEN LET tender == FormatTenderForMobile(MygovTender(row), now)
            IN  /\ run' = [run EXCEPT !.feed = Append(@, row),
                                      !.batch = Append(@, tender)]
                /\ db' = SaveToDb(db, tender, now)
       ELSE /\ run' = [run EXCEPT !.pc = "crashed", !.feed = Append(@, row)]
            /\ db' = db
    /\ ret' = NoRet
    /\ UNCHANGED <<now, call>>

\* lines 247-277: one row; a missing required cell raises inside the try
\* and the row is skipped
MygovRow(row) ==
    /\ run.pc = "mygov_rows"
    /\ Len(run.feed) < MaxRows
    /\ IF row.cells_ok
       THEN LET tender == FormatTenderForMobile(MygovTender(row), now)
            IN  /\ run' = [run EXCEPT !.feed = Append(@, row),
                                      !.batch = Append(@, tender)]
                /\ db' = SaveToDb(db, tender, now)
       ELSE /\ run' = [run EXCEPT !.feed = Append(@, row)]
            /\ db' = db
    /\ ret' = NoRet
    /\ UNCHANGED <<now, call>>

\* lines 279-280: the table is exhausted
MygovEnd ==
    /\ run.pc = "mygov_rows"
    /\ run' = [run EXCEPT !.pc = "mygov_done"]
    /\ ret' = NoRet
    /\ UNCHANGED <<db, now, call>>

\* lines 287-307: the request of scrape_ppip_tenders, inside its try; an
\* exception of the request is caught at line 358
FetchPpip(answers) ==
    /\ run.pc = "mygov_done"
    /\ run' = CASE MakeRequest(answers) = "raise" ->
                    [NoRun EXCEPT !.pc = "done", !.page = "request_raised"]
                [] MakeRequest(answers) = "none" ->
                    [NoRun EXCEPT !.pc = "done", !.page = "no_response"]
                [] OTHER -> [NoRun EXCEPT !.pc = "ppip_page"]
    /\ ret' = NoRet
    /\ UNCHANGED <<db, now, call>>

\* lines 309-311 and 355-359: a body that is no JSON, or no JSON object,
\* raises inside the try
ParsePpip(payload) ==
    /\ run.pc = "ppip_page"
    /\ run' = IF payload = "releases"
              THEN [run EXCEPT !.pc = "ppip_rows", !.page = payload]
              ELSE [run EXCEPT !.pc = "done", !.page = payload]
    /\ ret' = NoRet
    /\ UNCHANGED <<db, now, call>>

\* lines 318-335
PpipTender(release) ==
    RawTender(release.reference, release.title, "ppip", release.closing,
              release.status)

\* lines 338-339: if not tender['reference'] or not tender['title']
Skipped(release) == release.reference = "" \/ release.title = NoTitle

\* lines 313-351: one release
PpipRelease(release) ==
    /\ run.pc = "ppip_rows"
    /\ Len(run.feed) < MaxRows
    /\ IF release.wellformed /\ ~Skipped(release)
       THEN LET tender == FormatTenderForMobile(PpipTender(release), now)
            IN  /\ run' = [run EXCEPT !.feed = Append(@, release),
                                      !.batch = Append(@, tender)]
                /\ db' = SaveToDb(db, tender, now)
       ELSE /\ run' = [run EXCEPT !.feed = Append(@, release)]
            /\ db' = db
    /\ ret' = NoRet
    /\ UNCHANGED <<now, call>>

\* lines 353-361: the feed is exhausted
PpipEnd ==
    /\ run.pc = "ppip_rows"
    /\ run' = [run EXCEPT !.pc = "done"]
    /\ ret' = NoRet
    /\ UNCHANGED <<db, now, call>>

(***************************************************************************)
(* The read side: get_mobile_tenders called with its default arguments     *)
(* (no status, category, entity or days_remaining filter).                 *)
(***************************************************************************)
\* an ORDER BY ... ASC that puts NULL last
ClosingBeforeNullsLast(a, b) ==
    LET rank(r) == IF r.closing_date = None THEN 1 ELSE 0
    IN  \/ rank(a) < rank(b)
        \/ rank(a) = rank(b) /\ a.closing_date.t < b.closing_date.t
        \/ rank(a) = rank(b) /\ a.closing_date.t = b.closing_date.t /\ a.id < b.id

\* line 481: order_by(TenderRecord.closing_date.asc()) on SQLite, where
\* NULL sorts before every value; rows with equal dates come in rowid order
ClosingBefore(a, b) ==
    LET rank(r) == IF r.closing_date = None THEN 0 ELSE 1
    IN  \/ rank(a) < rank(b)
        \/ rank(a) = rank(b) /\ a.closing_date.t < b.closing_date.t
        \/ rank(a) = rank(b) /\ a.closing_date.t = b.closing_date.t /\ a.id < b.id

RECURSIVE OrderByClosing(_)
OrderByClosing(records) ==
    IF records = {} THEN <<>>
    ELSE LET first == CHOOSE r \in records :
                        \A o \in records \ {r} : ClosingBefore(r, o)
         IN  <<first>> \o OrderByClosing(records \ {first})

\* lines 486-494: the dict built from a record; closing_date is the
\* datetime object read from the column
RecordTender(r) ==
    RawTender(r.reference, r.title, r.source, r.closing_date, "")

\* lines 449-505, called in the scraper's own thread: no pass is under way
GetMobileTenders ==
    LET records == OrderByClosing({db[i] : i \in 1..Len(db)})
    IN  /\ run.pc \in {"idle", "done", "crashed"}
        /\ ret' = [op |-> "query",
                   rows |-> records,
                   value |-> [i \in 1..Len(records) |->
                                FormatTenderForMobile(RecordTender(records[i]), now)]]
        /\ UNCHANGED <<db, now, call, run>>

(***************************************************************************)
(* SpecTabular: passes of the tabular extractor over tables whose          *)
(* closing-date cells hold calendar text                                   *)
(***************************************************************************)
\* rows with a closing-date cell in a spelled, a numeric or a year-first
\* layout
DatedRows ==
    {[reference |-> reference, cells_ok |-> TRUE, closing |-> text] :
        reference \in References,
        text \in {x \in DateInputs :
                    /\ x.k = "cal"
                    /\ x.layout \in {"%d %B %Y", "%d/%m/%Y", "%Y-%m-%d"}
                    /\ x.noise = ""
                    /\ x.token = ""}}

NextTabular ==
    \/ Tick
    \/ \E answers \in Scripts : FetchMygov(answers)
    \/ \E table \in Tables : ParseMygov(table)
    \/ \E row \in DatedRows : MygovRow(row)
    \/ MygovEnd

SpecTabular == InitStore /\ [][NextTabular]_vars

\* C22: for every row of a table whose closing-date text the date
\* normalizer reads as the calendar date D (numeric text day first), the
\* closing date stored for the row by the pass is D.
C22_PersistedDateIsNormalized ==
    [][(run.pc = "mygov_rows" /\ Len(run'.feed) > Len(run.feed)) =>
        LET row == run'.feed[Len(run'.feed)]
            D == ParseKenyanDate(row.closing)
        IN  (row.cells_ok /\ D # None) =>
                \E i \in 1..Len(db') :
                    /\ db'[i].reference = row.reference
                    /\ db'[i].source = "mygov"
                    /\ db'[i].closing_date = ColumnDateTime(D)]_vars

(***************************************************************************)
(* SpecQuery: get_mobile_tenders called with a days_remaining argument on  *)
(* a store filled by upserts.  The clock of the query (utcnow) and the     *)
(* stored wall clock values are both counted in the ticks of `now`.        *)
(***************************************************************************)
\* lines 476-478: closing_date <= utcnow() + N days; in SQL a comparison
\* with NULL is not true
WithinDays(r, n, t) ==
    r.closing_date # None /\ r.closing_date.t <= t + n * DayTicks

\* lines 449-505 with days_remaining = n
MobileTendersWithin(d, n, t) ==
    OrderByClosing({d[i] : i \in {j \in 1..Len(d) : WithinDays(d[j], n, t)}})

\* candidates that close at tick 0, at tick 3, or carry no date
QueryCandidates ==
    [reference : References, source : {"mygov"}, title : {T1},
     closing_date : {None, Str("eat", 0), Str("eat", 3)}]

GetMobileTendersWithin(n) ==
    LET records == MobileTendersWithin(db, n, now)
    IN  /\ ret' = [op |-> "query_days", arg |-> n, at |-> now,
                   rows |-> records,
                   value |-> [i \in 1..Len(records) |->
                                FormatTenderForMobile(RecordTender(records[i]), now)]]
        /\ UNCHANGED <<db, now, call, run>>

NextQuery ==
    \/ Tick
    \/ \E tender \in QueryCandidates : Save(tender)
    \/ \E n \in 0..MaxAhead : GetMobileTendersWithin(n)

SpecQuery == InitStore /\ [][NextQuery]_vars

\* C21: the daysRemaining = N filter of query keeps exactly the records
\* whose closingDate lies within N days ahead of now: a record whose
\* closingDate is null or already past is not kept.
C21_WithinDaysAhead ==
    ret.op = "query_days" =>
        \A i \in 1..Len(db) :
            (\E j \in 1..Len(ret.rows) : ret.rows[j].id = db[i].id)
                <=> /\ db[i].closing_date # None
                    /\ db[i].closing_date.t >= ret.at
                    /\ db[i].closing_date.t <= ret.at + ret.arg * DayTicks

(***************************************************************************)
(* SpecApi: the handler of GET /tender/{tender_id} (src/api/main.py,       *)
(* get_tender), which runs both extractors on every request.  What the     *)
(* upstreams deliver is an input of the request: for the table "raise"     *)
(* (the request or the table makes scrape_mygov_tenders raise),            *)
(* "no_response", or its rows; for the feed "no_response" or its releases. *)
(***************************************************************************)
\* scrape_mygov_tenders, lines 247-280, over the rows of one table
RECURSIVE ScrapeMygovRows(_, _, _, _)
ScrapeMygovRows(d, batch, rows, t) ==
    IF rows = <<>> THEN [db |-> d, batch |-> batch]
    ELSE IF Head(rows).cells_ok
    THEN LET tender == FormatTenderForMobile(MygovTender(Head(rows)), t)
         IN  ScrapeMygovRows(SaveToDb(d, tender, t), Append(batch, tender),
                             Tail(rows), t)
    ELSE ScrapeMygovRows(d, batch, Tail(rows), t)

\* scrape_ppip_tenders, lines 313-361, over the releases of one feed
RECURSIVE ScrapePpipReleases(_, _, _, _)
ScrapePpipReleases(d, batch, releases, t) ==
    IF releases = <<>> THEN [db |-> d, batch |-> batch]
    ELSE IF Head(releases).wellformed /\ ~Skipped(Head(releases))
    THEN LET tender == FormatTenderForMobile(PpipTender(Head(releases)), t)
         IN  ScrapePpipReleases(SaveToDb(d, tender, t), Append(batch, tender),
                                Tail(releases), t)
    ELSE ScrapePpipReleases(d, batch, Tail(releases), t)

\* tables and feeds of the requests: the table lists one tender, the feed
\* may list it as well
ApiRows ==
    {[reference |-> "R1", cells_ok |-> TRUE, closing |-> None]}

ApiReleases ==
    {[reference |-> reference, title |-> T1, wellformed |-> TRUE,
      closing |-> None, status |-> "active"] : reference \in References}

Delivery(kind, items) == [kind |-> kind, items |-> items]

MygovDeliveries ==
    {Delivery("raise", <<>>), Delivery("no_response", <<>>)}
    \cup {Delivery("rows", rows) : rows \in SeqsUpTo(ApiRows, MaxRows)}

PpipDeliveries ==
    {Delivery("no_response", <<>>)}
    \cup {Delivery("releases", releases) :
            releases \in SeqsUpTo(ApiReleases, MaxRows)}

\* references a client may ask for: those of the upstreams and one more
TenderRefs == References \cup {"R9"}

\* src/api/main.py lines 113-140
GetTender(tender_id, mygov, ppip) ==
    LET scraped_mygov ==
            IF mygov.kind \in {"raise", "no_response"}
            THEN [db |-> db, batch |-> <<>>]
            ELSE ScrapeMygovRows(db, <<>>, mygov.items, now)
        scraped ==
            IF mygov.kind = "raise" THEN scraped_mygov
            ELSE IF ppip.kind = "no_response"
                 THEN scraped_mygov
                 ELSE ScrapePpipReleases(scraped_mygov.db, scraped_mygov.batch,
                                         ppip.items, now)
        all_tenders == scraped.batch
        found == {i \in 1..Len(all_tenders) : all_tenders[i].reference = tender_id}
        \* what the body of the try raises, "" when it returns
        raised ==
            IF mygov.kind = "raise" THEN "scrape_error"
            ELSE IF found = {} THEN "HTTPException(404, Tender not found)"
            ELSE ""
        \* lines 139-140: except Exception, which HTTPException is as well
        response ==
            IF raised # ""
            THEN [status |-> 500, detail |-> raised]
            ELSE [status |-> 200, detail |-> ""]
    IN  /\ db' = scraped.db
        /\ ret' = [op |-> "get_tender", arg |-> tender_id,
                   scrape_raised |-> mygov.kind = "raise",
                   batch |-> all_tenders, response |-> response]
        /\ UNCHANGED <<now, call, run>>

NextApi ==
    \/ Tick
    \/ \E tender_id \in TenderRefs, mygov \in MygovDeliveries,
          ppip \in PpipDeliveries : GetTender(tender_id, mygov, ppip)

SpecApi == InitStore /\ [][NextApi]_vars

\* C24: GET /tender/{tender_id} answers 404 'Tender not found' when no
\* scraped tender of either source has that reference, and answers 500
\* only when scraping itself fails.
C24_NotFoundIs404 ==
    ret.op = "get_tender" =>
        /\ (/\ ~ret.scrape_raised
            /\ \A i \in 1..Len(ret.batch) : ret.batch[i].reference # ret.arg)
              => ret.response.status = 404
        /\ ret.response.status = 500 => ret.scrape_raised

NextIngest ==
    \/ Tick
    \/ \E answers \in Scripts : FetchMygov(answers)
    \/ \E table \in Tables : ParseMygov(table)
    \/ \E row \in Rows : MygovRow(row)
    \/ MygovEnd
    \/ \E answers \in Scripts : FetchPpip(answers)
    \/ \E payload \in Payloads : ParsePpip(payload)
    \/ \E release \in Releases : PpipRelease(release)
    \/ PpipEnd
    \/ GetMobileTenders

SpecIngest == InitStore /\ [][NextIngest]_vars

(***************************************************************************)
(* Claims about the read side and the extractors, under SpecIngest         *)
(***************************************************************************)
Dated(r) == r.closing_date # None

\* the query returned every stored record once, each through the formatter
QueryReturnsAll ==
    /\ Len(ret.rows) = Len(db)
    /\ {ret.rows[i] : i \in 1..Len(ret.rows)} = {db[i] : i \in 1..Len(db)}
    /\ \A i \in 1..Len(ret.rows) :
          /\ ret.value[i].reference = ret.rows[i].reference
          /\ ret.value[i].source = ret.rows[i].source

Ascending ==
    \A i, j \in 1..Len(ret.rows) :
        (i < j /\ Dated(ret.rows[i]) /\ Dated(ret.rows[j]))
            => ret.rows[i].closing_date.t <= ret.rows[j].closing_date.t

\* C7 as claimed: query returns its results ordered by closingDate
\* ascending, every record with a null closingDate after all dated records.
C7_OrderedNullsLast ==
    ret.op = "query" =>
        /\ QueryReturnsAll
        /\ Ascending
        /\ \A i, j \in 1..Len(ret.rows) :
              (i < j /\ ~Dated(ret.rows[i])) => ~Dated(ret.rows[j])

\* C7 as amended: query returns its results ordered by closingDate
\* ascending, every record with a null closingDate before all dated records.
C7_OrderedNullsFirst ==
    ret.op = "query" =>
        /\ QueryReturnsAll
        /\ Ascending
        /\ \A i, j \in 1..Len(ret.rows) :
              (i < j /\ ~Dated(ret.rows[j])) => ~Dated(ret.rows[i])

\* C7's case: the query returned a dated record and a record without closing
\* date that was stored after it
C7_Witness ==
    /\ ret.op = "query"
    /\ \E i, j \in 1..Len(ret.rows) :
          /\ i < j
          /\ ~Dated(ret.rows[i]) /\ Dated(ret.rows[j])
          /\ ret.rows[i].id > ret.rows[j].id

\* C8: whatever the upstream of a source returns, its extractor returns
\* without raising and the pass goes on to the other source: no pass ends in
\* an uncaught exception.
C8_NoFailureEndsThePass == run.pc # "crashed"

\* C9: on markup without the expected table the tabular extractor returns an
\* empty batch, does not raise and writes nothing to the store.
C9_NoTableEmptyBatch ==
    [][/\ run'.pc = "mygov_page" => db' = db
       /\ (run.pc = "mygov_page" /\ run'.page = "no_table")
             => /\ run'.pc = "mygov_done"
                /\ run'.batch = <<>>
                /\ db' = db]_vars

\* C9's case: a pass found no table, with records of an earlier pass stored
C9_Witness ==
    /\ run.pc = "mygov_done"
    /\ run.page = "no_table"
    /\ run.batch = <<>>
    /\ db # <<>>

\* C23: for every stored record with a closing date, the view the query
\* returns carries that closing date, localized to UTC+3, an integer
\* daysRemaining and a status among open, closing_soon and closed.
C23_ViewCarriesClosing ==
    ret.op = "query" =>
        \A i \in 1..Len(ret.rows) :
            ret.rows[i].closing_date # None =>
                /\ ret.value[i].closing_date = Str("eat", ret.rows[i].closing_date.t)
                /\ ret.value[i].days_remaining # <<>>
                /\ ret.value[i].status \in {"open", "closing_soon", "closed"}

\* the rows of a table that have their required cells
KeptRows(feed) == SelectSeq(feed, LAMBDA row : row.cells_ok)

\* C18: in the tabular extractor a row that lacks a required cell is
\* skipped and never ends the pass; every other row, before or after it
\* and with or without a closing-date cell, is formatted, returned in
\* order and passed to the upsert.
C18_RowIsolation ==
    [][(run.pc = "mygov_rows" /\ run' # run) =>
        /\ run'.pc \in {"mygov_rows", "mygov_done"}
        /\ Len(run'.batch) = Len(KeptRows(run'.feed))
        /\ \A i \in 1..Len(run'.batch) :
              run'.batch[i] =
                  FormatTenderForMobile(MygovTender(KeptRows(run'.feed)[i]),
                                        run'.batch[i].last_updated[1])
        /\ Len(run'.feed) > Len(run.feed) =>
              LET row == run'.feed[Len(run'.feed)]
              IN  IF row.cells_ok
                  THEN db' = SaveToDb(db, run'.batch[Len(run'.batch)], now)
                  ELSE db' = db]_vars

\* C18's case: the first row of a table lacked a required cell, the second
\* had no closing-date cell: the second was returned and stored
C18_Witness ==
    /\ run.pc = "mygov_done"
    /\ Len(run.feed) = 2
    /\ ~run.feed[1].cells_ok
    /\ run.feed[2].cells_ok /\ run.feed[2].closing = None
    /\ Len(run.batch) = 1
    /\ run.batch[1].reference = run.feed[2].reference
    /\ \E i \in 1..Len(db) :
          db[i].reference = run.feed[2].reference /\ db[i].source = "mygov"

Valid(release) == release.reference # "" /\ release.title # NoTitle

\* C10 (for feeds of well-formed releases): the OCDS extractor returns
\* exactly the releases with a reference and a title, in feed order, and
\* each of them is stored under source ppip when it returns.
C10_ExactlyValidReleases ==
    (/\ run.pc = "done"
     /\ run.page = "releases"
     /\ \A i \in 1..Len(run.feed) : run.feed[i].wellformed)
    => LET valid == SelectSeq(run.feed, Valid)
       IN  /\ Len(run.batch) = Len(valid)
           /\ \A i \in 1..Len(valid) :
                 /\ run.batch[i].reference = valid[i].reference
                 /\ run.batch[i].title = valid[i].title
                 /\ \E k \in 1..Len(db) :
                       /\ db[k].reference = valid[i].reference
                       /\ db[k].source = "ppip"

====
